---- MODULE Spec2Model ----
(***************************************************************************)
(* A model of prettyPrint (src/src/index.ts): the recursive renderer, the  *)
(* module-level array `seen`, the placeholder tokens and expandWhiteSpace, *)
(* the key collection of the object branch and the text fallback.          *)
(*                                                                         *)
(* A text is a sequence of one-character strings.  A placeholder token of  *)
(* the inline mode is one element of such a sequence (it is deleted or     *)
(* replaced before any length is taken).                                   *)
(***************************************************************************)
EXTENDS Integers, Sequences, FiniteSets, TLC

VARIABLES
    seen,     \* the module-level array `seen` (index.ts:41)
    stack,    \* the active prettyPrint invocations, outermost first
    status,   \* "idle" | "running" | "returned" | "threw"
    options,  \* the options object of the current top-level call
    root,     \* the input of the current top-level call
    result,   \* the text the last top-level call returned
    calls,    \* number of top-level calls made so far
    seen0,    \* history: `seen` when the current top-level call began
    steps,    \* history: steps the renderer took in the current call
    ev        \* history: what the last step of the renderer did

vars == <<seen, stack, status, options, root, result, calls, seen0, steps, ev>>

----------------------------------------------------------------------------
(* Bounds of the model *)

\* top-level calls made in one behaviour
MaxCalls == 2
\* inlineCharacterLimit ranges over 0 .. MaxLimit
MaxLimit == 8
\* longest input of the text fallback in SpecText
MaxLen == 3

----------------------------------------------------------------------------
(* Texts *)

RECURSIVE Flatten(_)
Flatten(ss) == IF ss = <<>> THEN <<>> ELSE Head(ss) \o Flatten(Tail(ss))

Digits == <<"0", "1", "2", "3", "4", "5", "6", "7", "8", "9">>

\* String(n) of a natural number
RECURSIVE NumToString(_)
NumToString(n) ==
    IF n < 10 THEN <<Digits[n + 1]>>
    ELSE NumToString(n \div 10) \o <<Digits[(n % 10) + 1]>>

\* string.replace(new RegExp(a + '|' + b, 'g'), rep) where the alternatives
\* are the placeholder tokens in `toks`
ReplaceAll(string, toks, rep) ==
    Flatten([i \in 1..Len(string) |->
                IF string[i] \in toks THEN rep ELSE <<string[i]>>])

Letters ==
    {"a", "b", "c", "d", "e", "f", "g", "h", "i", "j", "k", "l", "m", "n",
     "o", "p", "q", "r", "s", "t", "u", "v", "w", "x", "y", "z",
     "A", "B", "C", "D", "E", "F", "G", "H", "I", "J", "K", "L", "M", "N",
     "O", "P", "Q", "R", "S", "T", "U", "V", "W", "X", "Y", "Z"}

DigitChars == {Digits[i] : i \in 1..10}

\* variant of isClassicName: the pattern is /^[a-z$_0-9]+$/i
isClassicNameAnyStart(name) ==
    /\ Len(name) >= 1
    /\ \A i \in 1..Len(name) : name[i] \in Letters \cup DigitChars \cup {"$", "_"}

\* /^[a-z$_][a-z$_0-9]*$/i.test(name)
isClassicName(name) ==
    /\ Len(name) >= 1
    /\ name[1] \in Letters \cup {"$", "_"}
    /\ \A i \in 2..Len(name) : name[i] \in Letters \cup DigitChars \cup {"$", "_"}

----------------------------------------------------------------------------
(* Values and the heap *)

Null      == [k |-> "null",      n |-> 0, s |-> <<>>]
Undefined == [k |-> "undefined", n |-> 0, s |-> <<>>]
Num(n)    == [k |-> "number",    n |-> n, s |-> <<>>]
Bool(b)   == [k |-> "boolean",   n |-> IF b THEN 1 ELSE 0, s |-> <<>>]
Str(s)    == [k |-> "string",    n |-> 0, s |-> s]
\* a callable, a symbol and a regular expression carry their String() form
Fn(s)     == [k |-> "function",  n |-> 0, s |-> s]
Sym(s)    == [k |-> "symbol",    n |-> 0, s |-> s]
Regexp(s) == [k |-> "regexp",    n |-> 0, s |-> s]
\* a Date: n = 1 when the time value is valid, s its toISOString()
Date(ok, s) == [k |-> "date",    n |-> IF ok THEN 1 ELSE 0, s |-> s]
\* a reference to the array or object at address id
Ref(id)   == [k |-> "object",    n |-> id, s |-> <<>>]

StrKey(name) == [sym |-> FALSE, name |-> name]
SymKey(name) == [sym |-> TRUE,  name |-> name]

Prop(key, value)   == [key |-> key, value |-> value, enumerable |-> TRUE]
Hidden(key, value) == [key |-> key, value |-> value, enumerable |-> FALSE]

Arr(elems) ==
    [isArray |-> TRUE,
     props   |-> [i \in 1..Len(elems) |->
                    Prop(StrKey(NumToString(i - 1)), elems[i])]]
Obj(props) == [isArray |-> FALSE, props |-> props]

\* The object graphs the calls are made on; own properties are listed in
\* the order of creation.
Heap ==
    <<  \* 1, 2: v = {v: 10}; {a: v, b: v}
        Obj(<<Prop(StrKey(<<"a">>), Ref(2)), Prop(StrKey(<<"b">>), Ref(2))>>),
        Obj(<<Prop(StrKey(<<"v">>), Num(10))>>),
        \* 3, 4: array2 = []; array = [array2]; array2[0] = array2
        Arr(<<Ref(3)>>),
        Arr(<<Ref(3)>>),
        \* 5, 6, 7: array = [[[array, 10], array]]
        Arr(<<Ref(6)>>),
        Arr(<<Ref(7), Ref(5)>>),
        Arr(<<Ref(5), Num(10)>>),
        \* 8, 9: [] and {}
        Arr(<<>>),
        Obj(<<>>),
        \* 10, 11: {a: [1]}
        Obj(<<Prop(StrKey(<<"a">>), Ref(11))>>),
        Arr(<<Num(1)>>),
        \* 12: a symbol key, string keys, non-enumerable keys
        Obj(<<Prop(SymKey(<<"s">>), Num(3)),
              Prop(StrKey(<<"b">>), Num(1)),
              Hidden(StrKey(<<"h">>), Num(0)),
              Prop(StrKey(<<"2", "x">>), Str(<<"o", "'">>)),
              Hidden(SymKey(<<"n">>), Num(0)),
              Prop(StrKey(<<"a">>), Num(2))>>),
        \* 13: [function () {\n}]
        Arr(<<Fn(<<"f", "(", ")", "{", "\n", "}">>)>>),
        \* 14: {n: null, u: undefined, t: true, r: /./}
        Obj(<<Prop(StrKey(<<"n">>), Null), Prop(StrKey(<<"u">>), Undefined),
              Prop(StrKey(<<"t">>), Bool(TRUE)),
              Prop(StrKey(<<"r">>), Regexp(<<"/", ".", "/">>))>>),
        \* 15: [new Date('2014'), new Date(NaN)] inside an object
        Obj(<<Prop(StrKey(<<"d">>), Ref(16))>>),
        Arr(<<Date(TRUE, <<"2", "0", "1", "4">>), Date(FALSE, <<>>)>>),
        \* 17: obj = {x: 'a\nb'}; obj.c = obj
        Obj(<<Prop(StrKey(<<"x">>), Str(<<"a", "\n", "b">>)),
              Prop(StrKey(<<"c">>), Ref(17))>>)
    >>

Addresses == 1..Len(Heap)

\* the inputs of the top-level calls
Roots ==
    {Ref(id) : id \in {1, 2, 3, 4, 5, 8, 9, 10, 12, 13, 14, 15, 17}}
        \cup {Num(8), Str(<<"J", "'">>)}

----------------------------------------------------------------------------
(* Options, callbacks *)

defaultOptions == [indent |-> <<"\t">>, singleQuotes |-> TRUE]

\* {...defaultOptions, ...options}
combinedOptions(opts) == opts @@ defaultOptions

Has(opts, field) == field \in DOMAIN opts

\* input[el]
Get(input, el) ==
    LET props == Heap[input.n].props
        i == CHOOSE j \in 1..Len(props) : props[j].key = el
    IN  props[i].value

\* The filter callbacks a caller passes: prop !== 'a' (the filter of the
\* test suite), one that keeps nothing, and one that raises.
filterFn(name, input, el) ==
    CASE name = "dropA"   -> [throws |-> FALSE, keep |-> el # StrKey(<<"a">>)]
      [] name = "dropAll" -> [throws |-> FALSE, keep |-> FALSE]
      [] name = "throws"  -> [throws |-> TRUE,  keep |-> FALSE]

\* The transform callbacks a caller passes: the identity, the transform of
\* the test suite, and one that raises.
transformFn(name, input, el, originalResult) ==
    CASE name = "identity" -> [throws |-> FALSE, text |-> originalResult]
      [] name = "test" ->
            [throws |-> FALSE,
             text |->
                IF el = StrKey(<<"v">>) /\ Get(input, el).k = "number"
                    THEN NumToString(Get(input, el).n + 1)
                ELSE IF el = StrKey(<<"b">>)
                    THEN <<"'">> \o originalResult \o <<"L", "'">>
                ELSE IF Get(input, el) = Num(1)
                    THEN <<"L", "O", "L">>
                ELSE originalResult]
      [] name = "throws" -> [throws |-> TRUE, text |-> <<>>]

----------------------------------------------------------------------------
(* Placeholder tokens and expandWhiteSpace *)

TokNewLine        == "@@__PRETTY_PRINT_NEW_LINE__@@"
TokNewLineOrSpace == "@@__PRETTY_PRINT_NEW_LINE_OR_SPACE__@@"
TokPad            == "@@__PRETTY_PRINT_PAD__@@"
TokIndent         == "@@__PRETTY_PRINT_INDENT__@@"

tokens(opts, pad) ==
    IF ~Has(opts, "inlineCharacterLimit")
    THEN [newLine        |-> <<"\n">>,
          newLineOrSpace |-> <<"\n">>,
          pad            |-> pad,
          indent         |-> pad \o opts.indent]
    ELSE [newLine        |-> <<TokNewLine>>,
          newLineOrSpace |-> <<TokNewLineOrSpace>>,
          pad            |-> <<TokPad>>,
          indent         |-> <<TokIndent>>]

\* the single-line candidate of expandWhiteSpace
oneLined(string) ==
    ReplaceAll(
        ReplaceAll(
            ReplaceAll(string, {TokNewLine}, <<>>),
            {TokNewLineOrSpace}, <<" ">>),
        {TokPad, TokIndent}, <<>>)

\* variant of multiLined: the indent placeholder becomes the pad alone
multiLinedFlat(string, opts, pad) ==
    ReplaceAll(
        ReplaceAll(string, {TokNewLine, TokNewLineOrSpace}, <<"\n">>),
        {TokPad, TokIndent}, pad)

\* the multi-line form of expandWhiteSpace
multiLined(string, opts, pad) ==
    ReplaceAll(
        ReplaceAll(
            ReplaceAll(string, {TokNewLine, TokNewLineOrSpace}, <<"\n">>),
            {TokPad}, pad),
        {TokIndent}, pad \o opts.indent)

\* variant of fitsInline: the comparison is strict
fitsInlineStrict(length, limit) == length < limit

\* oneLined.length <= combinedOptions.inlineCharacterLimit
fitsInline(length, limit) == length <= limit

expandWhiteSpace(string, opts, pad) ==
    IF ~Has(opts, "inlineCharacterLimit") THEN string
    ELSE IF fitsInline(Len(oneLined(string)), opts.inlineCharacterLimit)
         THEN oneLined(string)
         ELSE multiLined(string, opts, pad)

----------------------------------------------------------------------------
(* The text fallback *)

\* String(input).replace(/[\r\n]/g, x => x === '\n' ? '\\n' : '\\r')
escapeLineTerminators(s) ==
    Flatten([i \in 1..Len(s) |->
                IF s[i] = "\n" THEN <<"\\", "n">>
                ELSE IF s[i] = "\r" THEN <<"\\", "r">>
                ELSE <<s[i]>>])

\* input.replace(/"/g, '\\"')
escapeDoubleQuotes(s) ==
    Flatten([i \in 1..Len(s) |->
                IF s[i] = "\"" THEN <<"\\", "\"">> ELSE <<s[i]>>])

\* variant of escapeSingleQuotes: the pattern is /'/g
escapeEverySingleQuote(s) ==
    Flatten([i \in 1..Len(s) |->
                IF s[i] = "'" THEN <<"\\", "'">> ELSE <<s[i]>>])

\* input.replace(/\\?'/g, '\\\''): scanning from the left, a match is an
\* optional backslash followed by a single quote
RECURSIVE escapeSingleQuotes(_)
escapeSingleQuotes(s) ==
    IF s = <<>> THEN <<>>
    ELSE IF Len(s) >= 2 /\ s[1] = "\\" /\ s[2] = "'"
        THEN <<"\\", "'">> \o escapeSingleQuotes(SubSeq(s, 3, Len(s)))
    ELSE IF s[1] = "'"
        THEN <<"\\", "'">> \o escapeSingleQuotes(Tail(s))
    ELSE <<s[1]>> \o escapeSingleQuotes(Tail(s))

\* lines 206-214
renderText(s, opts) ==
    LET input == escapeLineTerminators(s)
    IN  IF ~opts.singleQuotes
        THEN <<"\"">> \o escapeDoubleQuotes(input) \o <<"\"">>
        ELSE <<"'">> \o escapeSingleQuotes(input) \o <<"'">>

\* String(input) of the values returned at line 144
stringOf(input) ==
    CASE input.k = "null"      -> <<"n", "u", "l", "l">>
      [] input.k = "undefined" -> <<"u", "n", "d", "e", "f", "i", "n", "e", "d">>
      [] input.k = "number"    -> NumToString(input.n)
      [] input.k = "boolean"   -> IF input.n = 1 THEN <<"t", "r", "u", "e">>
                                  ELSE <<"f", "a", "l", "s", "e">>
      [] input.k = "symbol"    ->
            <<"S", "y", "m", "b", "o", "l", "(">> \o input.s \o <<")">>
      [] OTHER                 -> input.s

Circular == <<"\"", "[", "C", "i", "r", "c", "u", "l", "a", "r", "]", "\"">>

----------------------------------------------------------------------------
(* Key collection of the object branch *)

\* Object.keys(input): the own enumerable string-named keys, in order
ObjectKeys(input) ==
    LET props == Heap[input.n].props
        own == SelectSeq(props, LAMBDA p : p.enumerable /\ ~p.key.sym)
    IN  [i \in 1..Len(own) |-> own[i].key]

\* Object.getOwnPropertySymbols(object).filter(propertyIsEnumerable)
getOwnEnumPropSymbols(object) ==
    LET props == Heap[object.n].props
        syms == SelectSeq(props, LAMBDA p : p.key.sym)
        own == SelectSeq(syms, LAMBDA p : p.enumerable)
    IN  [i \in 1..Len(own) |-> own[i].key]

\* variant of allKeys: the symbol-named keys come first
allKeysSymbolsFirst(input) == getOwnEnumPropSymbols(input) \o ObjectKeys(input)

\* [...Object.keys(input), ...getOwnEnumPropSymbols(input)]
allKeys(input) == ObjectKeys(input) \o getOwnEnumPropSymbols(input)

\* objKeys.filter(el => combinedOptions.filter(input, el)) raises
filterThrows(input, opts) ==
    /\ Has(opts, "filter")
    /\ \E i \in 1..Len(allKeys(input)) :
            filterFn(opts.filter, input, allKeys(input)[i]).throws

\* lines 175-179
objKeys(input, opts) ==
    IF Has(opts, "filter")
    THEN SelectSeq(allKeys(input),
                   LAMBDA el : filterFn(opts.filter, input, el).keep)
    ELSE allKeys(input)

\* the indices input.map visits
arrayKeys(input) ==
    [i \in 1..Len(Heap[input.n].props) |-> Heap[input.n].props[i].key]

----------------------------------------------------------------------------
(* The Visited-Set *)

\* seen.indexOf(input); -1 when absent
indexOf(arr, input) ==
    IF \E i \in 1..Len(arr) : arr[i] = input
    THEN (CHOOSE i \in 1..Len(arr) :
            arr[i] = input /\ \A j \in 1..(i - 1) : arr[j] # input) - 1
    ELSE -1

\* variant of isSeen: the cycle check is missing
isSeenNever(arr, input) == FALSE

\* seen.indexOf(input) !== -1
isSeen(arr, input) == indexOf(arr, input) # -1

\* seen.push(input)
push(arr, input) == Append(arr, input)

\* seen.pop()
pop(arr) == IF arr = <<>> THEN arr ELSE SubSeq(arr, 1, Len(arr) - 1)

----------------------------------------------------------------------------
(* The invocations of prettyPrint *)

Frame(input, pad) ==
    [input |-> input,   \* the argument
     pad   |-> pad,     \* the argument
     keys  |-> <<>>,    \* the keys or indices the map callback visits
     i     |-> 0,       \* position of the map callback in keys
     acc   |-> <<>>,    \* the mapped entries, joined
     value |-> <<>>,    \* what the nested call of the callback returned
     ph    |-> "enter", \* "enter" | "map" | "got"
     log   |-> <<>>]    \* history: the entries emitted by the map callback

top == stack[Len(stack)]

co == combinedOptions(options)

\* the composites whose frames are below the top frame
ancestors == {stack[j].input : j \in 1..(Len(stack) - 1)}

\* the top invocation returns `text` to its caller
Return(text) ==
    IF Len(stack) = 1
    THEN /\ stack' = <<>>
         /\ status' = "returned"
         /\ result' = text
    ELSE /\ stack' = [SubSeq(stack, 1, Len(stack) - 1)
                        EXCEPT ![Len(stack) - 1].value = text,
                               ![Len(stack) - 1].ph = "got"]
         /\ UNCHANGED <<status, result>>

\* an exception leaves every active invocation: nothing catches it
Raise ==
    /\ stack' = <<>>
    /\ status' = "threw"
    /\ UNCHANGED result

\* the key of an entry of the object branch (lines 189-191, 198)
keyText(el, opts) ==
    IF el.sym THEN <<"S", "y", "m", "b", "o", "l", "(">> \o el.name \o <<")">>
    ELSE IF isClassicName(el.name) THEN el.name
    ELSE IF isSeen(seen, Str(el.name)) THEN Circular
    ELSE renderText(el.name, opts)

\* const eol = n - 1 === i ? tokens.newLine : ',' + tokens.newLineOrSpace
eolOf(tk, n, i) ==
    IF n = i THEN tk.newLine ELSE <<",">> \o tk.newLineOrSpace

\* the callback runs and its return value is dropped
applyTransformDropped(opts, input, el, value) ==
    IF Has(opts, "transform") /\ transformFn(opts.transform, input, el, value).throws
    THEN [throws |-> TRUE, text |-> <<>>, called |-> 1]
    ELSE [throws |-> FALSE, text |-> value,
          called |-> IF Has(opts, "transform") THEN 1 ELSE 0]

\* if (combinedOptions.transform) { value = combinedOptions.transform(input, el, value); }
applyTransform(opts, input, el, value) ==
    IF Has(opts, "transform")
    THEN [throws |-> transformFn(opts.transform, input, el, value).throws,
          text   |-> transformFn(opts.transform, input, el, value).text,
          called |-> 1]
    ELSE [throws |-> FALSE, text |-> value, called |-> 0]

\* return tokens.indent + String(key) + ': ' + value + eol
entryText(tk, key, value, eol) == tk.indent \o key \o value \o eol

\* the options a caller passes
Limits == 0..MaxLimit

Callers ==
    {[x \in {} |-> 0]}
    \cup {[singleQuotes |-> FALSE, indent |-> <<" ", " ">>]}
    \cup {[inlineCharacterLimit |-> l] : l \in Limits}
    \cup {[filter |-> f] : f \in {"dropA", "dropAll", "throws"}}
    \cup {[transform |-> t] : t \in {"identity", "test", "throws"}}
    \cup {[transform |-> t, inlineCharacterLimit |-> l] :
                t \in {"identity", "test"}, l \in {3, MaxLimit}}
    \cup {[filter |-> f, inlineCharacterLimit |-> MaxLimit] :
                f \in {"dropA", "dropAll"}}
    \cup {[singleQuotes |-> FALSE, inlineCharacterLimit |-> MaxLimit]}
    \cup {[filter |-> "dropA", transform |-> "test"]}

----------------------------------------------------------------------------
(* Actions *)

Init ==
    /\ seen = <<>>
    /\ stack = <<>>
    /\ status = "idle"
    /\ options = [x \in {} |-> 0]
    /\ root = Undefined
    /\ result = <<>>
    /\ calls = 0
    /\ seen0 = <<>>
    /\ steps = 0
    /\ ev = [t |-> "init"]

\* a caller invokes prettyPrint(input, opts)
Call(input, opts) ==
    /\ status # "running"
    /\ calls < MaxCalls
    /\ stack' = <<Frame(input, <<>>)>>
    /\ status' = "running"
    /\ options' = opts
    /\ root' = input
    /\ result' = <<>>
    /\ calls' = calls + 1
    /\ seen0' = seen
    /\ steps' = 0
    /\ ev' = [t |-> "call"]
    /\ UNCHANGED seen

\* lines 132-134
RenderCircular ==
    /\ status = "running" /\ top.ph = "enter"
    /\ isSeen(seen, top.input)
    /\ Return(Circular)
    /\ ev' = [t |-> "circular", input |-> top.input, anc |-> ancestors]
    /\ steps' = steps + 1
    /\ UNCHANGED <<seen, options, root, calls, seen0>>

\* lines 136-145
RenderPrimitive ==
    /\ status = "running" /\ top.ph = "enter"
    /\ ~isSeen(seen, top.input)
    /\ top.input.k \in {"null", "undefined", "number", "boolean",
                        "function", "symbol", "regexp"}
    /\ Return(stringOf(top.input))
    /\ ev' = [t |-> "leaf", input |-> top.input]
    /\ steps' = steps + 1
    /\ UNCHANGED <<seen, options, root, calls, seen0>>

\* lines 147-149; toISOString raises a RangeError on an invalid time value
RenderDate ==
    /\ status = "running" /\ top.ph = "enter"
    /\ ~isSeen(seen, top.input)
    /\ top.input.k = "date"
    /\ IF top.input.n = 1
       THEN Return(<<"n", "e", "w", " ", "D", "a", "t", "e", "(", "'">>
                    \o top.input.s \o <<"'", ")">>)
       ELSE Raise
    /\ ev' = [t |-> "leaf", input |-> top.input]
    /\ steps' = steps + 1
    /\ UNCHANGED <<seen, options, root, calls, seen0>>

\* lines 151-156
RenderArray ==
    /\ status = "running" /\ top.ph = "enter"
    /\ ~isSeen(seen, top.input)
    /\ top.input.k = "object" /\ Heap[top.input.n].isArray
    /\ IF Len(Heap[top.input.n].props) = 0
       THEN /\ Return(<<"[", "]">>)
            /\ ev' = [t |-> "empty", input |-> top.input]
            /\ UNCHANGED seen
       ELSE /\ seen' = push(seen, top.input)
            /\ stack' = [stack EXCEPT ![Len(stack)].keys = arrayKeys(top.input),
                                      ![Len(stack)].i = 1,
                                      ![Len(stack)].ph = "map"]
            /\ ev' = [t |-> "enter", input |-> top.input, anc |-> ancestors]
            /\ UNCHANGED <<status, result>>
    /\ steps' = steps + 1
    /\ UNCHANGED <<options, root, calls, seen0>>

\* lines 174-185
RenderObject ==
    /\ status = "running" /\ top.ph = "enter"
    /\ ~isSeen(seen, top.input)
    /\ top.input.k = "object" /\ ~Heap[top.input.n].isArray
    /\ IF filterThrows(top.input, co)
       THEN /\ Raise
            /\ ev' = [t |-> "raise", input |-> top.input]
            /\ UNCHANGED seen
       ELSE IF Len(objKeys(top.input, co)) = 0
       THEN /\ Return(<<"{", "}">>)
            /\ ev' = [t |-> "empty", input |-> top.input]
            /\ UNCHANGED seen
       ELSE /\ seen' = push(seen, top.input)
            /\ stack' = [stack EXCEPT ![Len(stack)].keys = objKeys(top.input, co),
                                      ![Len(stack)].i = 1,
                                      ![Len(stack)].ph = "map"]
            /\ ev' = [t |-> "enter", input |-> top.input, anc |-> ancestors]
            /\ UNCHANGED <<status, result>>
    /\ steps' = steps + 1
    /\ UNCHANGED <<options, root, calls, seen0>>

\* lines 206-214
RenderTextValue ==
    /\ status = "running" /\ top.ph = "enter"
    /\ ~isSeen(seen, top.input)
    /\ top.input.k = "string"
    /\ Return(renderText(top.input.s, co))
    /\ ev' = [t |-> "leaf", input |-> top.input]
    /\ steps' = steps + 1
    /\ UNCHANGED <<seen, options, root, calls, seen0>>

\* lines 161 and 193: the map callback renders the next member
CallMember ==
    /\ status = "running" /\ top.ph = "map"
    /\ top.i <= Len(top.keys)
    /\ stack' = Append(stack,
                       Frame(Get(top.input, top.keys[top.i]),
                             top.pad \o co.indent))
    /\ ev' = [t |-> "member"]
    /\ steps' = steps + 1
    /\ UNCHANGED <<seen, status, options, root, result, calls, seen0>>

\* lines 159-166 and 188-198: the rest of the map callback
EmitEntry ==
    /\ status = "running" /\ top.ph = "got"
    /\ LET input == top.input
           el == top.keys[top.i]
           tk == tokens(co, top.pad)
           eol == eolOf(tk, Len(top.keys), top.i)
           key == IF Heap[input.n].isArray THEN <<>>
                  ELSE keyText(el, co) \o <<":", " ">>
           tr == applyTransform(co, input, el, top.value)
       IN  IF tr.throws
           THEN /\ Raise
                /\ ev' = [t |-> "raise", input |-> input]
           ELSE /\ stack' =
                      [stack EXCEPT
                         ![Len(stack)].acc = @ \o entryText(tk, key, tr.text, eol),
                         ![Len(stack)].i = @ + 1,
                         ![Len(stack)].ph = "map",
                         ![Len(stack)].log =
                            Append(@, [el |-> el, arg |-> top.value,
                                       res |-> tr.text, called |-> tr.called])]
                /\ ev' = [t |-> "entry"]
                /\ UNCHANGED <<status, result>>
    /\ steps' = steps + 1
    /\ UNCHANGED <<seen, options, root, calls, seen0>>

\* lines 158, 167-171 and 187, 199-203
Finish ==
    /\ status = "running" /\ top.ph = "map"
    /\ top.i > Len(top.keys)
    /\ LET tk == tokens(co, top.pad)
           isArr == Heap[top.input.n].isArray
           ret == <<IF isArr THEN "[" ELSE "{">> \o tk.newLine \o top.acc
                    \o tk.pad \o <<IF isArr THEN "]" ELSE "}">>
           out == expandWhiteSpace(ret, co, top.pad)
       IN  /\ seen' = pop(seen)
           /\ Return(out)
           /\ ev' = [t |-> "finish", frame |-> top, ret |-> ret, out |-> out]
    /\ steps' = steps + 1
    /\ UNCHANGED <<options, root, calls, seen0>>

Render ==
    \/ RenderCircular
    \/ RenderPrimitive
    \/ RenderDate
    \/ RenderArray
    \/ RenderObject
    \/ RenderTextValue
    \/ CallMember
    \/ EmitEntry
    \/ Finish

Next ==
    \/ \E input \in Roots, opts \in Callers : Call(input, opts)
    \/ Render

Spec == Init /\ [][Next]_vars

\* The text fallback alone: one call on every text of at most MaxLen
\* characters, in either quoting mode.
TextChars == {"a", "\\", "'", "\"", "\n", "\r"}

Texts == UNION {[1..n -> TextChars] : n \in 0..MaxLen}

TextCallers ==
    {[x \in {} |-> 0], [singleQuotes |-> TRUE], [singleQuotes |-> FALSE]}

InitText ==
    /\ seen = <<>>
    /\ \E s \in Texts :
          /\ root = Str(s)
          /\ stack = <<Frame(Str(s), <<>>)>>
    /\ status = "running"
    /\ options \in TextCallers
    /\ result = <<>>
    /\ calls = 1
    /\ seen0 = <<>>
    /\ steps = 0
    /\ ev = [t |-> "call"]

NextText == RenderTextValue

SpecText == InitText /\ [][NextText]_vars

\* The key of an entry alone: every key name of at most MaxLen characters,
\* string-named or symbol-named, next to the same name rendered as a text
\* value under the same options.
KeyChars == {"a", "Z", "2", "$", "_", "-", "'", "\\"}

KeyNames == UNION {[1..n -> KeyChars] : n \in 0..MaxLen}

InitKey ==
    /\ seen = <<>>
    /\ \E s \in KeyNames :
          /\ root = Str(s)
          /\ stack = <<Frame(Str(s), <<>>)>>
    /\ status = "running"
    /\ options \in TextCallers
    /\ result = <<>>
    /\ calls = 1
    /\ seen0 = <<>>
    /\ steps = 0
    /\ ev = [t |-> "call"]

\* lines 189-191 and 198, for the key named root.s
RenderKey(isSymbol) ==
    /\ status = "returned" /\ ev.t = "leaf" /\ root.k = "string"
    /\ ev' = [t    |-> "key",
              el   |-> [sym |-> isSymbol, name |-> root.s],
              text |-> keyText([sym |-> isSymbol, name |-> root.s], co)]
    /\ UNCHANGED <<seen, stack, status, options, root, result, calls, seen0, steps>>

NextKey ==
    \/ RenderTextValue
    \/ \E isSymbol \in BOOLEAN : RenderKey(isSymbol)

SpecKey == InitKey /\ [][NextKey]_vars

----------------------------------------------------------------------------
(* Vocabulary of the properties *)

Range(f) == {f[i] : i \in DOMAIN f}

\* the members of a composite, enumerable or not
Members(v) == {Heap[v.n].props[i].value : i \in 1..Len(Heap[v.n].props)}

\* the composites reachable from a set of composites
RECURSIVE ReachFrom(_, _)
ReachFrom(frontier, visited) ==
    IF frontier = {} THEN visited
    ELSE LET nxt == {m \in UNION {Members(v) : v \in frontier} :
                        m.k = "object" /\ m \notin visited \cup frontier}
         IN  ReachFrom(nxt, visited \cup frontier)

Composites(v) == IF v.k = "object" THEN ReachFrom({v}, {}) ELSE {}

\* every value of the graph of v
ValuesOf(v) == {v} \cup UNION {Members(c) : c \in Composites(v)}

\* the graph holds sequences, keyed composites, numbers, booleans,
\* null/undefined and text only
DataOnly(v) ==
    \A x \in ValuesOf(v) :
        x.k \in {"object", "number", "boolean", "null", "undefined", "string"}

NoCallbacks == ~Has(options, "filter") /\ ~Has(options, "transform")

CallbacksReturn ==
    /\ Has(options, "filter") => options.filter # "throws"
    /\ Has(options, "transform") => options.transform # "throws"

\* the composites whose members are being rendered, outermost first
ActiveChain ==
    LET active == SelectSeq(stack, LAMBDA f : f.ph # "enter")
    IN  [i \in 1..Len(active) |-> active[i].input]

----------------------------------------------------------------------------
(* C1 *)

\* C1: in a top-level call without filter and transform, an occurrence of a
\* composite is rendered as "[Circular]" if and only if that composite is a
\* proper ancestor of the occurrence on the active rendering path.
C1_CircularIffAncestor ==
    (NoCallbacks /\ ev.t \in {"circular", "enter"})
        => (ev.t = "circular" <=> ev.input \in ev.anc)

\* The same, for the calls that begin with an empty Visited-Set.
C1_CircularIffAncestorFromEmpty ==
    (NoCallbacks /\ seen0 = <<>> /\ ev.t \in {"circular", "enter"})
        => (ev.t = "circular" <=> ev.input \in ev.anc)

----------------------------------------------------------------------------
(* C2 *)

C2Case == status # "idle" /\ DataOnly(root) /\ CallbacksReturn

\* the largest number of members of a composite of the graph of v
FanOut(v) ==
    LET sizes == {Len(Heap[c.n].props) : c \in Composites(v)} \cup {1}
    IN  CHOOSE m \in sizes : \A k \in sizes : k <= m

RECURSIVE Power(_, _)
Power(b, e) == IF e = 0 THEN 1 ELSE b * Power(b, e - 1)

RECURSIVE SumPowers(_, _)
SumPowers(b, e) == IF e = 0 THEN 1 ELSE Power(b, e) + SumPowers(b, e - 1)

\* invocations nested at most |composites| + 1 deep, each with at most
\* FanOut members, each taking a dispatch, a call, an entry or a finish
StepBound(v) == 3 * SumPowers(FanOut(v), Cardinality(Composites(v))) + 1

\* some step of the renderer applies to the top invocation
CanStep ==
    /\ Len(stack) >= 1
    /\ \/ /\ top.ph = "enter"
          /\ \/ isSeen(seen, top.input)
             \/ top.input.k \in {"null", "undefined", "number", "boolean",
                                 "function", "symbol", "regexp", "date",
                                 "object", "string"}
       \/ top.ph = "map"
       \/ top.ph = "got" /\ top.i <= Len(top.keys)

\* C2: on every finite graph of sequences, keyed composites, numbers,
\* booleans, null/undefined and text, cyclic or not, a top-level call
\* terminates (it is never stuck and takes a bounded number of steps),
\* returns a text without raising, and never nests more invocations than the
\* graph has composites, plus one.
C2_TerminatesBounded ==
    C2Case =>
        /\ status # "threw"
        /\ Len(stack) <= Cardinality(Composites(root)) + 1
        /\ steps <= StepBound(root)
        /\ status = "running" => CanStep
        /\ status = "returned" => Len(result) > 0

\* a call on the cyclic arrays [[[array, 10], array]] has returned
C2_Witness ==
    /\ status = "returned" /\ root = Ref(5) /\ C2Case
    /\ ev.t = "finish" /\ ev.frame.input = Ref(5)

----------------------------------------------------------------------------
(* C3 *)

\* C3: at every point of a top-level call that runs without exception, seen
\* is the list, outermost first, of the composites whose members are being
\* rendered; an empty sequence and an object with no key left are returned
\* without a push or a pop.
C3_SeenIsActiveChain ==
    /\ (status = "running" /\ C2Case) => seen = ActiveChain
    /\ (ev.t = "empty" /\ C2Case) => ev.input \notin Range(seen)

\* The same, for the calls that begin with an empty Visited-Set.
C3_SeenIsActiveChainFromEmpty ==
    (status = "running" /\ seen0 = <<>>) => seen = ActiveChain

----------------------------------------------------------------------------
(* C4 *)

\* C4: every push is released on every exit path, so after any sequence of
\* top-level calls, each of which returned or threw, seen is empty.
C4_SeenEmptyAfterCall ==
    status \in {"returned", "threw"} => seen = <<>>

----------------------------------------------------------------------------
(* A reference rendering, computed without placeholder tokens *)

HasLimit == Has(options, "inlineCharacterLimit")

\* the limit of the call; -1 stands for "not set" and inlines nothing
LimitOf(opts) ==
    IF Has(opts, "inlineCharacterLimit") THEN opts.inlineCharacterLimit ELSE 0 - 1

\* the own enumerable keys a filter keeps: string-named ones first
ExpKeys(v, opts) ==
    LET props == Heap[v.n].props
        kept(p) == /\ p.enumerable
                   /\ Has(opts, "filter") => filterFn(opts.filter, v, p.key).keep
        strs == SelectSeq(props, LAMBDA p : kept(p) /\ ~p.key.sym)
        syms == SelectSeq(props, LAMBDA p : kept(p) /\ p.key.sym)
    IN  [i \in 1..Len(strs) + Len(syms) |->
            IF i <= Len(strs) THEN strs[i].key ELSE syms[i - Len(strs)].key]

\* the keys or indices of the entries of a composite
ExpEntries(v, opts) ==
    IF Heap[v.n].isArray THEN arrayKeys(v) ELSE ExpKeys(v, opts)

\* "key: " of an entry; nothing for an element of a sequence
ExpKeyPart(v, el, opts) ==
    IF Heap[v.n].isArray THEN <<>>
    ELSE (IF el.sym THEN stringOf(Sym(el.name))
          ELSE IF isClassicName(el.name) THEN el.name
          ELSE renderText(el.name, opts)) \o <<":", " ">>

\* a value that is no sequence and no keyed composite
ExpLeaf(v, opts) ==
    CASE v.k = "string" -> renderText(v.s, opts)
      [] v.k = "date"   -> <<"n", "e", "w", " ", "D", "a", "t", "e", "(", "'">>
                            \o v.s \o <<"'", ")">>
      [] OTHER          -> stringOf(v)

RECURSIVE Join(_, _)
Join(parts, sep) ==
    IF parts = <<>> THEN <<>>
    ELSE IF Len(parts) = 1 THEN parts[1]
    ELSE parts[1] \o sep \o Join(Tail(parts), sep)

Open(v)  == IF Heap[v.n].isArray THEN <<"[">> ELSE <<"{">>
Close(v) == IF Heap[v.n].isArray THEN <<"]">> ELSE <<"}">>

\* the single-line form of v; vis holds the composites rendered as circular
RECURSIVE ExpOne(_, _, _)
ExpOne(v, vis, opts) ==
    IF v.k # "object" THEN ExpLeaf(v, opts)
    ELSE IF v \in vis THEN Circular
    ELSE LET els == ExpEntries(v, opts)
         IN  IF els = <<>> THEN Open(v) \o Close(v)
             ELSE Open(v)
                    \o Join([i \in 1..Len(els) |->
                                ExpKeyPart(v, els[i], opts)
                                    \o ExpOne(Get(v, els[i]), vis \cup {v}, opts)],
                            <<",", " ">>)
                    \o Close(v)

\* the rendering of v at indentation pad under limit lim: the single-line
\* form when it fits, else one member per line
RECURSIVE ExpRender(_, _, _, _, _)
ExpRender(v, pad, vis, opts, lim) ==
    IF v.k # "object" THEN ExpLeaf(v, opts)
    ELSE IF v \in vis THEN Circular
    ELSE LET els == ExpEntries(v, opts)
         IN  IF els = <<>> THEN Open(v) \o Close(v)
             ELSE IF Len(ExpOne(v, vis, opts)) <= lim THEN ExpOne(v, vis, opts)
             ELSE Open(v) \o <<"\n">>
                    \o Join([i \in 1..Len(els) |->
                                pad \o opts.indent
                                    \o ExpKeyPart(v, els[i], opts)
                                    \o ExpRender(Get(v, els[i]), pad \o opts.indent,
                                                 vis \cup {v}, opts, lim)],
                            <<",", "\n">>)
                    \o <<"\n">> \o pad \o Close(v)

----------------------------------------------------------------------------
(* C5 *)

\* the single-line form of a text with placeholders: newline tokens and pad
\* and indent tokens deleted, newline-or-space tokens turned into a space
C5Single(string) ==
    LET kept == SelectSeq(string,
                          LAMBDA c : c \notin {TokNewLine, TokPad, TokIndent})
    IN  [i \in 1..Len(kept) |->
            IF kept[i] = TokNewLineOrSpace THEN " " ELSE kept[i]]

\* C5: with inlineCharacterLimit = L a non-empty composite is returned in
\* its single-line form if and only if that form is at most L long, and
\* otherwise with a line break after the opening bracket; without a limit
\* the multi-line text is returned as it was assembled.
C5_InlineIffFits ==
    ev.t = "finish" =>
        IF HasLimit
        THEN /\ ev.out = C5Single(ev.ret)
                    <=> Len(C5Single(ev.ret)) <= options.inlineCharacterLimit
             /\ ev.out # C5Single(ev.ret) => ev.out[2] = "\n"
             /\ \A i \in 1..Len(ev.out) :
                    ev.out[i] \notin {TokNewLine, TokNewLineOrSpace, TokPad, TokIndent}
        ELSE /\ ev.out = ev.ret
             /\ ev.out[2] = "\n"

\* a composite whose single-line form is exactly as long as the limit has
\* been returned inlined
C5_Witness ==
    /\ ev.t = "finish" /\ HasLimit
    /\ Len(C5Single(ev.ret)) = options.inlineCharacterLimit
    /\ ev.out = C5Single(ev.ret)

----------------------------------------------------------------------------
(* C6 *)

\* the call's output is the no-limit layout in which exactly the composites
\* whose single-line form fits the limit are replaced by that form
C6_Layout ==
    (status = "returned" /\ ~Has(options, "transform"))
        => result = ExpRender(root, <<>>, Range(seen0), co, LimitOf(options))

C6Inlined ==
    /\ ev.t = "finish" /\ HasLimit /\ ~Has(options, "transform")
    /\ Len(C5Single(ev.ret)) <= options.inlineCharacterLimit

\* no callable, symbol or pattern of the graph of v has a raw line
\* terminator in its text
NoRawTerminator(v) ==
    /\ \A x \in ValuesOf(v) :
            x.k \in {"function", "symbol", "regexp"}
                => \A i \in 1..Len(x.s) : x.s[i] \notin {"\n", "\r"}
    /\ \A c \in Composites(v) : \A j \in 1..Len(Heap[c.n].props) :
            Heap[c.n].props[j].key.sym
                => \A i \in 1..Len(Heap[c.n].props[j].key.name) :
                        Heap[c.n].props[j].key.name[i] \notin {"\n", "\r"}

\* C6 as stated: the layout above, and an inlined composite contains no
\* newline.
C6_LayoutNoNewline ==
    /\ C6_Layout
    /\ C6Inlined => \A i \in 1..Len(ev.out) : ev.out[i] # "\n"

\* C6 amended: the layout above, and an inlined composite contains no
\* newline unless a callable, symbol or pattern in it has a raw line
\* terminator in its own text, which is emitted as it is.
C6_LayoutNoNewlineButRaw ==
    /\ C6_Layout
    /\ (C6Inlined /\ NoRawTerminator(ev.frame.input))
            => \A i \in 1..Len(ev.out) : ev.out[i] # "\n"

\* {a: [1]} with limit 5 has returned: [1] inlined, the object not
C6_Witness ==
    /\ status = "returned" /\ root = Ref(10) /\ options = [inlineCharacterLimit |-> 5]
    /\ result # ExpRender(root, <<>>, Range(seen0), co, 0 - 1)
    /\ \E i \in 1..Len(result) : result[i] = "\n"

----------------------------------------------------------------------------
(* C7 *)

C7Entry(f, i) ==
    entryText(tokens(co, f.pad), ExpKeyPart(f.input, f.keys[i], co),
              f.log[i].res, eolOf(tokens(co, f.pad), Len(f.keys), i))

\* C7: the entries of a keyed composite are its own enumerable string-named
\* keys followed by its own enumerable symbol-named keys, in order, less the
\* keys the filter rejects; each remaining entry is the key and the text of
\* its member, whatever the other keys are.
C7_KeysInOrder ==
    /\ (ev.t = "finish" /\ ~Heap[ev.frame.input.n].isArray) =>
        LET f == ev.frame
            props == Heap[f.input.n].props
        IN  /\ f.keys = ExpKeys(f.input, co)
            /\ Range(f.keys) =
                 {props[i].key : i \in
                    {j \in 1..Len(props) :
                        /\ props[j].enumerable
                        /\ Has(co, "filter")
                              => filterFn(co.filter, f.input, props[j].key).keep}}
            /\ Len(f.log) = Len(f.keys)
            /\ \A i \in 1..Len(f.keys) : f.log[i].el = f.keys[i]
            /\ ev.ret = <<"{">> \o tokens(co, f.pad).newLine
                          \o Flatten([i \in 1..Len(f.keys) |-> C7Entry(f, i)])
                          \o tokens(co, f.pad).pad \o <<"}">>
            /\ ~Has(co, "transform") =>
                 \A i \in 1..Len(f.keys) :
                    f.log[i].res =
                        ExpRender(Get(f.input, f.keys[i]), f.pad \o co.indent,
                                  Range(seen) \cup {f.input}, co, LimitOf(options))
    /\ (ev.t = "empty" /\ ~Heap[ev.input.n].isArray) => ExpKeys(ev.input, co) = <<>>

\* the object with a symbol key, a quoted key and non-enumerable keys has
\* been rendered under the filter prop !== 'a'
C7_Witness ==
    /\ ev.t = "finish" /\ ev.frame.input = Ref(12)
    /\ Has(options, "filter") /\ options.filter = "dropA"
    /\ Len(ev.frame.keys) = 3

----------------------------------------------------------------------------
(* C8 *)

\* C8: transform is invoked once for every element or retained key, with the
\* composite, the key and the rendered text of the member; what it returns
\* stands verbatim in the parent's text; the identity transform gives the
\* output of no transform.
C8_TransformEachMember ==
    /\ (ev.t = "finish" /\ Has(options, "transform")) =>
        LET f == ev.frame
            tk == tokens(co, f.pad)
        IN  /\ Len(f.log) = Len(f.keys)
            /\ \A i \in 1..Len(f.keys) :
                  /\ f.log[i].el = f.keys[i]
                  /\ f.log[i].called = 1
                  /\ f.log[i].res =
                        transformFn(options.transform, f.input, f.keys[i],
                                    f.log[i].arg).text
            /\ ev.ret = Open(f.input) \o tk.newLine
                          \o Flatten([i \in 1..Len(f.keys) |->
                                tk.indent \o ExpKeyPart(f.input, f.keys[i], co)
                                    \o f.log[i].res
                                    \o eolOf(tk, Len(f.keys), i)])
                          \o tk.pad \o Close(f.input)
    /\ (ev.t = "finish" /\ ~Has(options, "transform")) =>
            \A i \in 1..Len(ev.frame.log) : ev.frame.log[i].called = 0
    /\ (status = "returned" /\ Has(options, "transform")
            /\ options.transform = "identity") =>
            result = ExpRender(root, <<>>, Range(seen0), co, LimitOf(options))

\* the transform of the test suite has replaced the text of a member
C8_Witness ==
    /\ ev.t = "finish" /\ Has(options, "transform") /\ options.transform = "test"
    /\ \E i \in 1..Len(ev.frame.log) : ev.frame.log[i].res # ev.frame.log[i].arg

----------------------------------------------------------------------------
(* C9 *)

TextReturned == status = "returned" /\ root.k = "string"

\* a backslash before each single quote that has none before it, the line
\* terminators spelled out, every other character as it is
C9Body(s) ==
    Flatten([i \in 1..Len(s) |->
        IF s[i] = "\n" THEN <<"\\", "n">>
        ELSE IF s[i] = "\r" THEN <<"\\", "r">>
        ELSE IF s[i] = "'" /\ (i = 1 \/ s[i - 1] # "\\") THEN <<"\\", "'">>
        ELSE <<s[i]>>])

\* C9: in single-quote mode a backslash is put before exactly the single
\* quotes that no backslash precedes, an escaped quote is not escaped again,
\* nothing else changes but the line terminators, and the whole is wrapped
\* in single quotes.
C9_EscapesUnescapedQuotes ==
    (TextReturned /\ co.singleQuotes)
        => result = <<"'">> \o C9Body(root.s) \o <<"'">>

\* the text ' \ ' (a bare quote, then an escaped one) rendered by default
C9_Witness ==
    /\ TextReturned /\ options = [x \in {} |-> 0]
    /\ root.s = <<"'", "\\", "'">>
    /\ result = <<"'", "\\", "'", "\\", "'", "'">>

----------------------------------------------------------------------------
(* C10 *)

\* the number of consecutive backslashes that end just before position i
RECURSIVE BackslashesBefore(_, _)
BackslashesBefore(body, i) ==
    IF i > 1 /\ body[i - 1] = "\\" THEN 1 + BackslashesBefore(body, i - 1)
    ELSE 0

ValidLiteral(text, quote) ==
    /\ Len(text) >= 2
    /\ text[1] = quote /\ text[Len(text)] = quote
    /\ LET body == SubSeq(text, 2, Len(text) - 1)
       IN  /\ \A i \in 1..Len(body) : body[i] \notin {"\n", "\r"}
           /\ \A i \in 1..Len(body) :
                body[i] = quote => BackslashesBefore(body, i) % 2 = 1
           /\ BackslashesBefore(body, Len(body) + 1) % 2 = 0

\* C10: in both quoting modes the rendered text is a valid quoted literal:
\* wrapped in the quote character, no raw line terminator, every quote of
\* the body escaped, the closing quote not escaped.
C10_ValidLiteral ==
    TextReturned =>
        ValidLiteral(result, IF co.singleQuotes THEN "'" ELSE "\"")

----------------------------------------------------------------------------
(* C11 *)

\* a letter, $ or _ first, then letters, digits, $ and _
C11Matches(name) ==
    /\ name # <<>>
    /\ name[1] \notin DigitChars
    /\ \A i \in 1..Len(name) : name[i] \in Letters \cup DigitChars \cup {"$", "_"}

\* String(key)
C11Bare(el) ==
    IF el.sym THEN <<"S", "y", "m", "b", "o", "l", "(">> \o el.name \o <<")">>
    ELSE el.name

\* C11: a key is emitted bare if and only if it is a symbol or its name
\* matches /^[a-z$_][a-z$_0-9]*$/i; any other string key is emitted as that
\* name rendered as a text value under the same options, so wrapped in the
\* active quote character.
C11_BareIffClassic ==
    ev.t = "key" =>
        LET quote == IF co.singleQuotes THEN "'" ELSE "\""
        IN  /\ ev.text = C11Bare(ev.el)
                <=> (ev.el.sym \/ C11Matches(ev.el.name))
            /\ ev.text # C11Bare(ev.el) =>
                /\ ev.text = result
                /\ ev.text[1] = quote /\ ev.text[Len(ev.text)] = quote

\* the string key 2a, which starts with a digit, has been emitted quoted
C11_Witness ==
    /\ ev.t = "key" /\ ~ev.el.sym /\ ev.el.name = <<"2", "a">>
    /\ options = [singleQuotes |-> FALSE]
    /\ ev.text = <<"\"", "2", "a", "\"">>

====
